---------------------------- MODULE Spec2Model ----------------------------
(***************************************************************************)
(* Model of src/main.py: the FastAPI video search / transcription backend. *)
(*                                                                         *)
(* Two specifications:                                                     *)
(*   SpecSearch  the pure /search handler (search_keyword) applied to      *)
(*               requests drawn from small input sets;                     *)
(*   Spec        the ingestion, clip and retrieval handlers running        *)
(*               concurrently over the four asset directories, with the    *)
(*               external tools (yt-dlp, ffmpeg) and os.remove as          *)
(*               nondeterministic collaborators.                           *)
(*                                                                         *)
(* Texts, keywords, identifiers and file names are sequences of            *)
(* one-character strings.  Command lines, URLs and exception messages are  *)
(* sequences of words, the phrases the /youtube handler looks for in       *)
(* str(e) being single words.  In /search, times are integers in eighths   *)
(* of a second (exactly representable as Python floats) and rounded        *)
(* results are integers in hundredths of a second.  A subprocess.run of an  *)
(* external tool has three outcomes: the tool exits 0, the tool exits      *)
(* non-zero (subprocess.CalledProcessError), or the program cannot be      *)
(* started (an OSError such as FileNotFoundError).                         *)
(***************************************************************************)
EXTENDS Integers, Sequences, FiniteSets, TLC

VARIABLES
    search_req,     \* the SearchRequest body handed to search_keyword
    search_resp,    \* [done, matches]: the "matches" list search_keyword returned
    videos,         \* file names in VIDEO_DIR  (line 14)
    temp,           \* file names in TEMP_DIR   (line 15)
    clips,          \* file names in CLIPS_DIR  (line 16)
    audio,          \* file names in AUDIO_DIR  (line 17)
    issued,         \* identifiers uuid.uuid4() has returned so far
    rq,             \* the requests: position, arguments, locals, response
    get_resp,       \* the response of the latest GET /clips or GET /audio
    fslog           \* history: every file write and delete, with its request

search_vars == <<search_req, search_resp>>
fs_vars == <<videos, temp, clips, audio>>
handler_vars == <<videos, temp, clips, audio, issued, rq, get_resp, fslog>>
vars == <<search_req, search_resp, videos, temp, clips, audio, issued, rq,
          get_resp, fslog>>

NoSearchResponse == [done |-> FALSE, matches |-> <<>>]
NoGet == [endpoint |-> "", clip_id |-> <<>>, status |-> 0, body |-> "", media |-> ""]

(* ------------------------------ bounds -------------------------------- *)

\* Longest "segments" list of a SearchRequest.
MaxSegs == 2

(* --------------------------- string helpers --------------------------- *)

\* str.lower() on the model's alphabet.
Lower(c) == IF c = "A" THEN "a" ELSE IF c = "B" THEN "b" ELSE c

\* s.lower()
LowerStr(s) == [i \in 1..Len(s) |-> Lower(s[i])]

\* Python's `sub in s` on strings: sub occurs as a contiguous substring.
StrIn(sub, s) ==
    \E o \in 0..(Len(s) - Len(sub)) :
        \A p \in 1..Len(sub) : s[o + p] = sub[p]

\* str.isspace() for one character.
IsSpace(c) == c = " "

RECURSIVE LStrip(_)
LStrip(s) == IF s # <<>> /\ IsSpace(Head(s)) THEN LStrip(Tail(s)) ELSE s

RECURSIVE RStrip(_)
RStrip(s) ==
    IF s # <<>> /\ IsSpace(s[Len(s)]) THEN RStrip(SubSeq(s, 1, Len(s) - 1)) ELSE s

\* s.strip()
Strip(s) == RStrip(LStrip(s))

(* ------------------------------ numbers ------------------------------- *)

Max(a, b) == IF a >= b THEN a ELSE b

\* A whole number of seconds (SearchRequest.window is an int) in eighths.
Seconds(n) == 8 * n

\* round(x, 2) for x = e/8 seconds, in hundredths.  e/8 is exact in binary
\* floating point, so a value half way between two hundredths is a true tie
\* and Python rounds it to the even neighbour.
Round2(e) ==
    LET n == 25 * e
    IN  IF n % 2 = 0 THEN n \div 2
        ELSE LET q == (n - 1) \div 2
             IN  IF q % 2 = 0 THEN q ELSE q + 1

(* ------------------------------ /search ------------------------------- *)

\* Line 216 and the test of line 220: keyword is lowered once, then looked up
\* in the lowered segment text.
KeywordMatchesCaseSensitive(keyword, text) == StrIn(keyword, text)

KeywordMatches(keyword, text) == StrIn(LowerStr(keyword), LowerStr(text))

\* Line 221.
ClipStart(seg, window) == Max(seg.start - Seconds(window), 0)

\* Line 222.
ClipEnd(seg, window) == seg.end + Seconds(window)

\* Lines 224-229: the dict appended for one matching segment.
MatchOf(seg, window) ==
    [ found_at   |-> Round2(seg.start),
      clip_start |-> Round2(ClipStart(seg, window)),
      clip_end   |-> Round2(ClipEnd(seg, window)),
      text       |-> Strip(seg.text) ]

\* Lines 217-229: the loop over data.segments, appending in order.
RECURSIVE SearchLoop(_, _, _, _)
SearchLoop(segments, keyword, window, results) ==
    IF segments = <<>> THEN results
    ELSE LET seg == Head(segments)
         IN  SearchLoop(Tail(segments), keyword, window,
                        IF KeywordMatches(keyword, seg.text)
                        THEN Append(results, MatchOf(seg, window))
                        ELSE results)

\* The "matches" value of the /search response.
search_keyword(data) == SearchLoop(data.segments, data.keyword, data.window, <<>>)

(* Inputs of /search. *)

Texts ==
    { <<>>, <<"a">>, <<"A", " ">>, <<" ", "a", "A">>, <<"b", "A">>, <<" ">> }

Keywords == { <<>>, <<"a">>, <<"A">>, <<"a", "a">>, <<"B">> }

\* (start, end) in eighths of a second, 0 <= start <= end (section 3 of the
\* specification).
TimePairs == { <<0, 0>>, <<3, 5>>, <<17, 25>> }

\* SearchRequest.window: any int is accepted; 7 is the default of line 122.
Windows == { -1, 0, 1, 7 }

Segments ==
    { [text |-> t, start |-> p[1], end |-> p[2]] : t \in Texts, p \in TimePairs }

RECURSIVE SeqsUpTo(_, _)
SeqsUpTo(S, n) ==
    IF n = 0 THEN { <<>> }
    ELSE LET shorter == SeqsUpTo(S, n - 1)
         IN  shorter \cup { Append(q, x) : q \in { r \in shorter : Len(r) = n - 1 },
                                           x \in S }

SearchRequests ==
    { [segments |-> s, keyword |-> k, window |-> w] :
        s \in SeqsUpTo(Segments, MaxSegs), k \in Keywords, w \in Windows }

InitSearch ==
    /\ search_req \in SearchRequests
    /\ search_resp = NoSearchResponse
    /\ videos = {} /\ temp = {} /\ clips = {} /\ audio = {}
    /\ issued = {}
    /\ rq = <<>>
    /\ get_resp = NoGet
    /\ fslog = {}

\* POST /search.
Search ==
    /\ ~search_resp.done
    /\ search_resp' = [done |-> TRUE, matches |-> search_keyword(search_req)]
    /\ UNCHANGED <<search_req, handler_vars>>

NextSearch == Search

SpecSearch == InitSearch /\ [][NextSearch]_vars


(* ===================== ingestion, clips, retrieval ==================== *)

\* Requests the model lets arrive.
MaxReqs == 2

(* Identifiers.  uuid.uuid4() returns strings of one fixed length; the model
   takes three two-letter strings, two of them with a common first letter,
   and assumes, as the handlers do, that uuid4 never returns the same
   identifier twice. *)
IdSpace == { <<"p", "p">>, <<"p", "q">>, <<"q", "p">> }

\* Lines 136, 161, 251: the values a call of uuid.uuid4() can return.
uuid4Repeating == IdSpace

uuid4 == IdSpace \ issued

(* File names: identifier followed by an extension. *)
Mp4  == <<".", "m", "p", "4">>
Mov  == <<".", "m", "o", "v">>
Webm == <<".", "w", "e", "b", "m">>
Part == <<".", "p", "a", "r", "t">>
Wav  == <<".", "w", "a", "v">>

\* str.startswith
StartsWith(f, prefix) ==
    Len(prefix) <= Len(f) /\ SubSeq(f, 1, Len(prefix)) = prefix

\* Lines 185, 200, 245: [f for f in os.listdir(VIDEO_DIR) if f.startswith(id)]
ListAllVideoFiles(id) == videos

ListVideoFiles(id) == { f \in videos : StartsWith(f, id) }

(* Exceptions and responses. *)
NoExc == [type |-> "none", msg |-> <<>>]
NoResp == [status |-> 0, body |-> "", raised |-> NoExc, audio_clip |-> FALSE]

\* str(CalledProcessError): "Command '<argv>' returned non-zero exit status 1."
CalledProcessError(argv) ==
    [type |-> "CalledProcessError",
     msg  |-> <<"Command">> \o argv \o <<"returned non-zero exit status">>]

\* Line 187.
DownloadNotFound == [type |-> "FileNotFoundError", msg |-> <<"Video download failed">>]

\* What open()/write() and os.remove() raise when the filesystem refuses.
OSError(what) == [type |-> "OSError", msg |-> <<what>>]

\* What subprocess.run raises when argv[0] cannot be executed.
NotStarted(program) ==
    [type |-> "OSError", msg |-> <<"[Errno 2] No such file or directory:", program>>]

\* Line 144: what `await file.read()` raises when the task is cancelled there;
\* a BaseException, not an Exception.
CancelledError == [type |-> "CancelledError", msg |-> <<>>]

\* An exception that leaves an `async def` route handler: 500 from the server.
Raised(e) == [status |-> 500, body |-> "Internal Server Error", raised |-> e,
              audio_clip |-> FALSE]

\* A returned dict, or a raised HTTPException(status, detail).
Returned(status, body) ==
    [status |-> status, body |-> body, raised |-> NoExc, audio_clip |-> FALSE]

(* Command lines. *)
VideoPath(f) == <<"BASE/videos/">> \o f
TempPath(f)  == <<"BASE/temp/">> \o f

\* Line 170 and line 178.
YtDlpArgv(primary, id, url) ==
    <<"python", "-m", "yt_dlp">>
    \o (IF primary THEN <<"-f", "best[ext=mp4]/best">> ELSE <<>>)
    \o <<"-o">> \o VideoPath(id \o <<".%(ext)s">>) \o url

\* Lines 40-47.
ExtractArgv(video_file, audio_file) ==
    <<"ffmpeg", "-y", "-i">> \o VideoPath(video_file)
    \o <<"-ac", "1", "-ar", "16000">> \o TempPath(audio_file)

\* The outcomes of subprocess.run(argv, check=True).
ToolOutcomes == { "ok", "nonzero", "not started" }

\* The exception of an outcome other than "ok".
ToolError(outcome, argv) ==
    IF outcome = "not started" THEN NotStarted(argv[1]) ELSE CalledProcessError(argv)

\* One record per subprocess.run.
Call(tool, mode, input, ss, t, output, outcome) ==
    [tool |-> tool, mode |-> mode, input |-> input, ss |-> ss, t |-> t,
     output |-> output, started |-> outcome # "not started", ok |-> outcome = "ok"]

(* Inputs. *)
UploadExts == { Mp4, Mov }               \* line 138: extension of file.filename
DownloadExts == { Webm }                 \* extension yt-dlp gives the download
\* URLs: atoms of text; the second one carries the phrase of line 207.
Urls == { <<"https://v/1">>, <<"https://v/", "Video download failed">> }
\* Caller-supplied video_id strings of ClipRequest.
CallerIds == { <<>>, <<"p">>, <<"p", "p">> }
\* (start_time, end_time) of ClipRequest, in seconds.
ClipTimes == { <<1, 3>>, <<3, 1>> }

NewRequest(kind, id, arg) ==
    [kind |-> kind, pc |-> "start", id |-> id, arg |-> arg, src |-> <<>>,
     exc |-> NoExc, cause |-> "", resp |-> NoResp, calls |-> <<>>,
     rm_failed |-> FALSE]

Reqs == 1..Len(rq)
At(r, kind, pc) == rq[r].kind = kind /\ rq[r].pc = pc

Wrote(dir, f, r)   == [op |-> "write", dir |-> dir, name |-> f, by |-> r]
Deleted(dir, f, r) == [op |-> "delete", dir |-> dir, name |-> f, by |-> r]

Init ==
    /\ search_req = [segments |-> <<>>, keyword |-> <<>>, window |-> 7]
    /\ search_resp = NoSearchResponse
    /\ videos = {} /\ temp = {} /\ clips = {} /\ audio = {}
    /\ issued = {}
    /\ rq = <<>>
    /\ get_resp = NoGet
    /\ fslog = {}

(* ------------------------------ /upload ------------------------------- *)

\* Lines 136-143: a request arrives, its identifier and paths are fixed and
\* open(video_path, "wb") creates the (empty) file or raises; nothing
\* suspends the handler in between.
UploadStart ==
    /\ Len(rq) < MaxReqs
    /\ \E id \in uuid4, ext \in UploadExts, opened \in BOOLEAN :
         /\ issued' = issued \cup {id}
         /\ videos' = IF opened THEN videos \cup {id \o ext} ELSE videos
         /\ fslog' = IF opened THEN fslog \cup {Wrote("videos", id \o ext, Len(rq) + 1)}
                     ELSE fslog
         /\ rq' = Append(rq, IF opened
                             THEN [NewRequest("upload", id, ext) EXCEPT !.pc = "write"]
                             ELSE [NewRequest("upload", id, ext) EXCEPT
                                     !.pc = "cleanup", !.cause = "write",
                                     !.exc = OSError("open failed")])
    /\ UNCHANGED <<search_vars, temp, clips, audio, get_resp>>

\* Line 144: f.write(await file.read()).  The handler was suspended at the
\* await with the file open; it resumes with the bytes and writes them, or
\* with an exception of read() or write(), or with the CancelledError of a
\* cancelled task, which `except Exception` (line 153) does not catch: the
\* handler ends there, without cleanup and without a response.
UploadWrite(r) ==
    /\ At(r, "upload", "write")
    /\ \E outcome \in {"ok", "write failed", "cancelled"} :
         rq' = [rq EXCEPT ![r] =
                  IF outcome = "ok" THEN [@ EXCEPT !.pc = "extract"]
                  ELSE IF outcome = "cancelled"
                       THEN [@ EXCEPT !.pc = "done", !.cause = "cancelled",
                                      !.exc = CancelledError]
                       ELSE [@ EXCEPT !.pc = "cleanup", !.cause = "write",
                                      !.exc = OSError(outcome)]]
    /\ UNCHANGED <<search_vars, fs_vars, issued, get_resp, fslog>>

\* Lines 146-152: extract_audio (ffmpeg, check=True), the stubbed
\* transcribe_audio, and the return.  ffmpeg's output file is taken to exist
\* exactly when it exits 0.
UploadExtract(r) ==
    /\ At(r, "upload", "extract")
    /\ LET f == rq[r].id \o rq[r].arg
           a == rq[r].id \o Wav
       IN \E outcome \in ToolOutcomes :
            LET ok == outcome = "ok"
            IN  /\ ok => f \in videos
                /\ temp' = IF ok THEN temp \cup {a} ELSE temp
                /\ fslog' = IF ok THEN fslog \cup {Wrote("temp", a, r)} ELSE fslog
                /\ rq' = [rq EXCEPT ![r] =
                            [@ EXCEPT
                               !.calls = Append(@, Call("ffmpeg", "extract", f, 0, 0, a,
                                                        outcome)),
                               !.pc = IF ok THEN "done" ELSE "cleanup",
                               !.cause = IF ok THEN "" ELSE "extract",
                               !.exc = IF ok THEN NoExc
                                       ELSE ToolError(outcome, ExtractArgv(f, a)),
                               !.resp = IF ok THEN Returned(200, "ingested") ELSE NoResp]]
    /\ UNCHANGED <<search_vars, videos, clips, audio, issued, get_resp>>

\* Lines 153-157: remove video_path if it exists, then re-raise.  os.remove is
\* not guarded here: when it raises, its exception is the one that leaves.
UploadCleanup(r) ==
    /\ At(r, "upload", "cleanup")
    /\ LET f == rq[r].id \o rq[r].arg
       IN IF f \in videos
          THEN \E removed \in BOOLEAN :
                 /\ videos' = IF removed THEN videos \ {f} ELSE videos
                 /\ fslog' = IF removed THEN fslog \cup {Deleted("videos", f, r)}
                             ELSE fslog
                 /\ rq' = [rq EXCEPT ![r] =
                             [@ EXCEPT !.pc = "done",
                                       !.rm_failed = ~removed,
                                       !.resp = IF removed THEN Raised(rq[r].exc)
                                                ELSE Raised(OSError("remove failed"))]]
          ELSE /\ rq' = [rq EXCEPT ![r] =
                           [@ EXCEPT !.pc = "done", !.resp = Raised(rq[r].exc)]]
               /\ UNCHANGED <<videos, fslog>>
    /\ UNCHANGED <<search_vars, temp, clips, audio, issued, get_resp>>


(* ------------------------------ /youtube ------------------------------ *)

\* Lines 161-164.
YoutubeStart ==
    /\ Len(rq) < MaxReqs
    /\ \E id \in uuid4, url \in Urls :
         /\ issued' = issued \cup {id}
         /\ rq' = Append(rq, [NewRequest("youtube", id, url) EXCEPT !.pc = "download"])
    /\ UNCHANGED <<search_vars, fs_vars, get_resp, fslog>>

\* What one run of yt-dlp can leave in VIDEO_DIR under the template
\* "<video_id>.%(ext)s": on exit 0 the download or nothing, on a non-zero exit
\* nothing or a partial download, nothing when it was not started.
YtDlpOutputs(id, outcome) ==
    IF outcome = "ok" THEN { {} } \cup { {id \o ext} : ext \in DownloadExts }
    ELSE IF outcome = "nonzero" THEN { {}, {id \o Part} }
    ELSE { {} }

\* One subprocess.run of yt-dlp by request r.
YtDlpRun(r, outcome, out) ==
    /\ out \in YtDlpOutputs(rq[r].id, outcome)
    /\ videos' = videos \cup out
    /\ fslog' = fslog \cup { Wrote("videos", f, r) : f \in out }

\* Line 175: the second download runs in the handler of the first one's
\* CalledProcessError, and of no other exception.
RetryOnAnyFailure(first) == first # "ok"

Retry(first) == first = "nonzero"

\* Lines 169-175: the download with the primary format preference.
YoutubeDownload(r) ==
    /\ At(r, "youtube", "download")
    /\ \E outcome \in ToolOutcomes,
          out \in SUBSET { rq[r].id \o e : e \in DownloadExts \cup {Part} } :
         LET raised == outcome # "ok" /\ ~Retry(outcome)
         IN  /\ YtDlpRun(r, outcome, out)
             /\ rq' = [rq EXCEPT ![r] =
                         [@ EXCEPT
                            !.calls = Append(@, Call("yt_dlp", "primary", rq[r].arg, 0, 0,
                                                     rq[r].id, outcome)),
                            !.pc = IF Retry(outcome) THEN "retry"
                                   ELSE IF outcome = "ok" THEN "locate" ELSE "cleanup",
                            !.cause = IF raised THEN "download not started" ELSE "",
                            !.exc = IF raised
                                    THEN ToolError(outcome,
                                                   YtDlpArgv(TRUE, rq[r].id, rq[r].arg))
                                    ELSE NoExc]]
    /\ UNCHANGED <<search_vars, temp, clips, audio, issued, get_resp>>

\* Lines 176-182: the download with no format constraint; its exception is
\* not caught by the inner try.
YoutubeRetry(r) ==
    /\ At(r, "youtube", "retry")
    /\ \E outcome \in ToolOutcomes,
          out \in SUBSET { rq[r].id \o e : e \in DownloadExts \cup {Part} } :
         LET ok == outcome = "ok"
         IN  /\ YtDlpRun(r, outcome, out)
             /\ rq' = [rq EXCEPT ![r] =
                         [@ EXCEPT
                            !.calls = Append(@, Call("yt_dlp", "any", rq[r].arg, 0, 0,
                                                     rq[r].id, outcome)),
                            !.pc = IF ok THEN "locate" ELSE "cleanup",
                            !.cause = IF ok THEN ""
                                      ELSE IF outcome = "nonzero" THEN "download"
                                      ELSE "download not started",
                            !.exc = IF ok THEN NoExc
                                    ELSE ToolError(outcome,
                                                   YtDlpArgv(FALSE, rq[r].id, rq[r].arg))]]
    /\ UNCHANGED <<search_vars, temp, clips, audio, issued, get_resp>>

\* Lines 185-197: locate the download by prefix (os.listdir order is
\* arbitrary, so video_files[0] is any of the matches), extract_audio,
\* transcribe_audio, return.
YoutubeLocateExtract(r) ==
    /\ At(r, "youtube", "locate")
    /\ LET video_files == ListVideoFiles(rq[r].id)
           a == rq[r].id \o Wav
       IN IF video_files = {}
          THEN /\ rq' = [rq EXCEPT ![r] =
                           [@ EXCEPT !.pc = "cleanup", !.cause = "not found",
                                     !.exc = DownloadNotFound]]
               /\ UNCHANGED <<temp, fslog>>
          ELSE \E f \in video_files, outcome \in ToolOutcomes :
                 LET ok == outcome = "ok"
                 IN  /\ temp' = IF ok THEN temp \cup {a} ELSE temp
                     /\ fslog' = IF ok THEN fslog \cup {Wrote("temp", a, r)} ELSE fslog
                     /\ rq' = [rq EXCEPT ![r] =
                                 [@ EXCEPT
                                    !.src = f,
                                    !.calls = Append(@, Call("ffmpeg", "extract", f, 0, 0,
                                                             a, outcome)),
                                    !.pc = IF ok THEN "done" ELSE "cleanup",
                                    !.cause = IF ok THEN "" ELSE "extract",
                                    !.exc = IF ok THEN NoExc
                                            ELSE ToolError(outcome, ExtractArgv(f, a)),
                                    !.resp = IF ok THEN Returned(200, "ingested")
                                             ELSE NoResp]]
    /\ UNCHANGED <<search_vars, videos, clips, audio, issued, get_resp>>

\* Lines 206-212: the HTTPException chosen from str(e).
YoutubeError(e) ==
    IF StrIn(<<"Video download failed">>, e.msg) THEN Returned(400, "download failed")
    ELSE IF StrIn(<<"yt_dlp">>, e.msg) \/ StrIn(<<"yt-dlp">>, e.msg)
         THEN Returned(500, "downloader error")
         ELSE Returned(500, "processing error")

\* Lines 198-212: remove every file that starts with video_id, swallowing
\* each os.remove failure, then raise the HTTPException.
YoutubeCleanup(r) ==
    /\ At(r, "youtube", "cleanup")
    /\ LET video_files == ListVideoFiles(rq[r].id)
       IN \E removed \in SUBSET video_files :
            /\ videos' = videos \ removed
            /\ fslog' = fslog \cup { Deleted("videos", f, r) : f \in removed }
            /\ rq' = [rq EXCEPT ![r] =
                        [@ EXCEPT !.pc = "done",
                                  !.rm_failed = removed # video_files,
                                  !.resp = YoutubeError(rq[r].exc)]]
    /\ UNCHANGED <<search_vars, temp, clips, audio, issued, get_resp>>


(* --------------------------- /generate-clip --------------------------- *)

\* Lines 64 and 101.
Duration(start_time, end_time) == end_time - start_time

\* Line 81: the re-encode runs in the handler of the stream copy's
\* CalledProcessError, and of no other exception.
FallbackOnAnyFailure(copy) == copy # "ok"

Fallback(copy) == copy = "nonzero"

\* Lines 245-254: look the video up by prefix; with no match return the
\* error dict, otherwise take video_files[0] and a fresh clip_id.
GenerateClipStart ==
    /\ Len(rq) < MaxReqs
    /\ \E video_id \in CallerIds, times \in ClipTimes :
         LET data == [video_id |-> video_id, start_time |-> times[1],
                      end_time |-> times[2]]
             video_files == ListVideoFiles(video_id)
         IN IF video_files = {}
            THEN /\ rq' = Append(rq, [NewRequest("generate_clip", <<>>, data) EXCEPT
                                        !.pc = "done",
                                        !.resp = Returned(200, "Video file not found")])
                 /\ UNCHANGED issued
            ELSE \E f \in video_files, clip_id \in uuid4 :
                   /\ issued' = issued \cup {clip_id}
                   /\ rq' = Append(rq, [NewRequest("generate_clip", clip_id, data) EXCEPT
                                          !.pc = "copy", !.src = f])
    /\ UNCHANGED <<search_vars, fs_vars, get_resp, fslog>>

\* Lines 68-76 and 84-93: the two command lines of create_video_clip.
VideoClipArgv(mode, video_file, ss, t, clip_file) ==
    <<"ffmpeg", "-y", "-i">> \o VideoPath(video_file) \o <<"-ss", ss, "-t", t>>
    \o (IF mode = "copy" THEN <<"-c", "copy">> ELSE <<"-c:v", "libx264", "-c:a", "aac">>)
    \o <<"BASE/clips/">> \o clip_file

\* One subprocess.run of ffmpeg by create_video_clip: exit 0 writes
\* output_path, a non-zero exit may leave a partial file there, a tool that
\* was not started leaves nothing.
VideoClipRun(r, mode, outcome, left) ==
    LET data == rq[r].arg
        out == rq[r].id \o Mp4
        t == Duration(data.start_time, data.end_time)
        ok == outcome = "ok"
        caught == mode = "copy" /\ Fallback(outcome)
        raised == ~ok /\ ~caught
    IN /\ ok => rq[r].src \in videos /\ left
       /\ outcome = "not started" => ~left
       /\ clips' = IF left THEN clips \cup {out} ELSE clips
       /\ fslog' = IF left THEN fslog \cup {Wrote("clips", out, r)} ELSE fslog
       /\ rq' = [rq EXCEPT ![r] =
                   [@ EXCEPT
                      !.calls = Append(@, Call("ffmpeg", mode, rq[r].src,
                                               data.start_time, t, out, outcome)),
                      !.pc = IF caught THEN "reencode"
                             ELSE IF ok THEN "audio" ELSE "cleanup",
                      !.cause = IF raised THEN "video clip" ELSE "",
                      !.exc = IF raised
                              THEN ToolError(outcome,
                                     VideoClipArgv(mode, rq[r].src, data.start_time, t, out))
                              ELSE NoExc]]

\* Lines 65-81: create_video_clip tries the stream copy first; its
\* CalledProcessError is caught, any other exception leaves create_video_clip.
ClipCopy(r) ==
    /\ At(r, "generate_clip", "copy")
    /\ \E outcome \in ToolOutcomes, left \in BOOLEAN : VideoClipRun(r, "copy", outcome, left)
    /\ UNCHANGED <<search_vars, videos, temp, audio, issued, get_resp>>

\* Lines 82-97: the re-encode; its exception leaves create_video_clip.
ClipReencode(r) ==
    /\ At(r, "generate_clip", "reencode")
    /\ \E outcome \in ToolOutcomes, left \in BOOLEAN :
         VideoClipRun(r, "reencode", outcome, left)
    /\ UNCHANGED <<search_vars, videos, temp, audio, issued, get_resp>>

\* Lines 260-267: the audio clip, made only when the extracted audio
\* "<video_id>.wav" exists, and the returned dict.
ClipAudio(r) ==
    /\ At(r, "generate_clip", "audio")
    /\ LET data == rq[r].arg
           a == data.video_id \o Wav
           out == rq[r].id \o Wav
           t == Duration(data.start_time, data.end_time)
       IN IF a \in temp
          THEN \E outcome \in ToolOutcomes :
                 LET ok == outcome = "ok"
                 IN  /\ audio' = IF ok THEN audio \cup {out} ELSE audio
                     /\ fslog' = IF ok THEN fslog \cup {Wrote("audio", out, r)} ELSE fslog
                     /\ rq' = [rq EXCEPT ![r] =
                                 [@ EXCEPT
                                    !.calls = Append(@, Call("ffmpeg", "audio clip", a,
                                                             data.start_time, t, out,
                                                             outcome)),
                                    !.pc = IF ok THEN "done" ELSE "cleanup",
                                    !.cause = IF ok THEN "" ELSE "audio clip",
                                    !.exc = IF ok THEN NoExc
                                            ELSE ToolError(outcome,
                                                           <<"ffmpeg", "-y", "-i">>
                                                           \o TempPath(a)),
                                    !.resp = IF ok
                                             THEN [Returned(200, "clip") EXCEPT
                                                     !.audio_clip = out \in audio']
                                             ELSE NoResp]]
          ELSE /\ rq' = [rq EXCEPT ![r] =
                           [@ EXCEPT !.pc = "done",
                                     !.resp = [Returned(200, "clip") EXCEPT
                                                 !.audio_clip = out \in audio]]]
               /\ UNCHANGED <<audio, fslog>>
    /\ UNCHANGED <<search_vars, videos, temp, clips, issued, get_resp>>

\* Lines 268-275: remove the video clip if it exists, swallowing a failing
\* os.remove, and re-raise.
ClipCleanup(r) ==
    /\ At(r, "generate_clip", "cleanup")
    /\ LET out == rq[r].id \o Mp4
       IN IF out \in clips
          THEN \E removed \in BOOLEAN :
                 /\ clips' = IF removed THEN clips \ {out} ELSE clips
                 /\ fslog' = IF removed THEN fslog \cup {Deleted("clips", out, r)}
                             ELSE fslog
                 /\ rq' = [rq EXCEPT ![r] =
                             [@ EXCEPT !.pc = "done", !.rm_failed = ~removed,
                                       !.resp = Raised(rq[r].exc)]]
          ELSE /\ rq' = [rq EXCEPT ![r] =
                           [@ EXCEPT !.pc = "done", !.resp = Raised(rq[r].exc)]]
               /\ UNCHANGED <<clips, fslog>>
    /\ UNCHANGED <<search_vars, videos, temp, audio, issued, get_resp>>

(* ------------------------------ retrieval ----------------------------- *)

\* clip_id values of the GET requests.
GetIds == { <<"q", "p">> }

\* Lines 277-283.
get_video_clip(clip_id) ==
    IF (clip_id \o Mp4) \in clips
    THEN [endpoint |-> "clips", clip_id |-> clip_id, status |-> 200,
          body |-> "file", media |-> "video/mp4"]
    ELSE [endpoint |-> "clips", clip_id |-> clip_id, status |-> 200,
          body |-> "Clip not found", media |-> "application/json"]

\* Lines 285-291.
get_audio_clip_in_clips_dir(clip_id) ==
    IF (clip_id \o Mp4) \in clips
    THEN [endpoint |-> "audio", clip_id |-> clip_id, status |-> 200,
          body |-> "file", media |-> "audio/wav"]
    ELSE [endpoint |-> "audio", clip_id |-> clip_id, status |-> 200,
          body |-> "Audio clip not found", media |-> "application/json"]

get_audio_clip(clip_id) ==
    IF (clip_id \o Wav) \in audio
    THEN [endpoint |-> "audio", clip_id |-> clip_id, status |-> 200,
          body |-> "file", media |-> "audio/wav"]
    ELSE [endpoint |-> "audio", clip_id |-> clip_id, status |-> 200,
          body |-> "Audio clip not found", media |-> "application/json"]

GetVideoClip ==
    /\ \E clip_id \in GetIds : get_resp' = get_video_clip(clip_id)
    /\ UNCHANGED <<search_vars, fs_vars, issued, rq, fslog>>

GetAudioClip ==
    /\ \E clip_id \in GetIds : get_resp' = get_audio_clip(clip_id)
    /\ UNCHANGED <<search_vars, fs_vars, issued, rq, fslog>>

(* ---------------------------- specification --------------------------- *)

Next ==
    \/ UploadStart
    \/ \E r \in Reqs : UploadWrite(r)
    \/ \E r \in Reqs : UploadExtract(r)
    \/ \E r \in Reqs : UploadCleanup(r)
    \/ YoutubeStart
    \/ \E r \in Reqs : YoutubeDownload(r)
    \/ \E r \in Reqs : YoutubeRetry(r)
    \/ \E r \in Reqs : YoutubeLocateExtract(r)
    \/ \E r \in Reqs : YoutubeCleanup(r)
    \/ GenerateClipStart
    \/ \E r \in Reqs : ClipCopy(r)
    \/ \E r \in Reqs : ClipReencode(r)
    \/ \E r \in Reqs : ClipAudio(r)
    \/ \E r \in Reqs : ClipCleanup(r)
    \/ GetVideoClip
    \/ GetAudioClip

Spec == Init /\ [][Next]_vars


(* ============================== properties ============================ *)

(* Vocabulary of the properties, stated without the handlers' operators. *)

SameLetter(c, d) == c = d \/ {c, d} = {"a", "A"} \/ {c, d} = {"b", "B"}

\* k occurs in text as a substring, letter case ignored.
ContainsIgnoringCase(text, k) ==
    \E o \in 0..(Len(text) - Len(k)) :
        \A i \in 1..Len(k) : SameLetter(text[o + i], k[i])

\* Positions of the segments of S whose text contains k.
MatchingPositions(S, k) ==
    { i \in 1..Len(S) : ContainsIgnoringCase(S[i].text, k) }

\* The j-th smallest element of a set of positions.
NthPosition(P, j) == CHOOSE i \in P : Cardinality({ x \in P : x < i }) = j - 1

\* The text without the spaces at its two ends.
Trimmed(t) ==
    IF \A i \in 1..Len(t) : t[i] = " " THEN <<>>
    ELSE LET first == CHOOSE i \in 1..Len(t) :
                        t[i] # " " /\ \A j \in 1..(i - 1) : t[j] = " "
             last  == CHOOSE i \in 1..Len(t) :
                        t[i] # " " /\ \A j \in (i + 1)..Len(t) : t[j] = " "
         IN  SubSeq(t, first, last)

IsPrefixOf(prefix, f) ==
    Len(prefix) <= Len(f) /\ \A i \in 1..Len(prefix) : f[i] = prefix[i]

\* The identifier of a stored file: its name up to the extension.
RECURSIVE IdentifierOf(_)
IdentifierOf(f) ==
    IF f = <<>> \/ Head(f) = "." THEN <<>> ELSE <<Head(f)>> \o IdentifierOf(Tail(f))

Finished(r, kind) == rq[r].kind = kind /\ rq[r].pc = "done"
\* A step of the request raised an exception its handler saw; the upload
\* whose task was cancelled is not among them.
Failed(r) == rq[r].cause \notin {"", "cancelled"}

(* ------------------------------- C1 ----------------------------------- *)

\* C1: the matches /search returns are exactly the segments whose text
\* contains the keyword as a case-insensitive substring: one match per such
\* segment, in the order of the request, nothing for the other segments.
C1_MatchesAreExactlyTheContainingSegments ==
    search_resp.done =>
        LET S == search_req.segments
            M == search_resp.matches
            P == MatchingPositions(S, search_req.keyword)
        IN  /\ Len(M) = Cardinality(P)
            /\ \A j \in 1..Len(M) :
                 LET seg == S[NthPosition(P, j)]
                 IN  /\ M[j].text = Trimmed(seg.text)
                     /\ M[j].found_at = Round2(seg.start)
            /\ (search_req.keyword = <<>> => Len(M) = Len(S))

\* /search answered a two-segment request whose keyword "A" is found only in
\* the second segment, there written "a".
C1_Witness ==
    /\ search_resp.done
    /\ search_req.keyword = <<"A">>
    /\ Len(search_req.segments) = 2
    /\ search_req.segments[1].text = <<" ">>
    /\ search_req.segments[2].text = <<"a">>
    /\ Len(search_resp.matches) = 1
    /\ search_resp.matches[1].found_at = Round2(search_req.segments[2].start)

(* ------------------------------- C2 ----------------------------------- *)

\* C2: for every match, clip_start is max(start - window, 0) (rounded to two
\* decimals) and never negative, clip_end is end + window (rounded) and never
\* below clip_start, for every window SearchRequest accepts.
C2_ClipWindowIsOrdered ==
    search_resp.done =>
        LET S == search_req.segments
            M == search_resp.matches
            w == 8 * search_req.window
            P == MatchingPositions(S, search_req.keyword)
        IN  \A j \in 1..Len(M) :
              LET seg == S[NthPosition(P, j)]
              IN  /\ M[j].clip_start =
                        Round2(IF seg.start - w > 0 THEN seg.start - w ELSE 0)
                  /\ M[j].clip_start >= 0
                  /\ M[j].clip_end = Round2(seg.end + w)
                  /\ M[j].clip_end >= M[j].clip_start


(* ------------------------------- C3 ----------------------------------- *)

\* C3: a failed /youtube request is reported under the class of its cause:
\* 400 "download failed" exactly when the tool succeeded and no file starts
\* with the identifier, 500 "downloader error" exactly when both download
\* attempts ran and exited non-zero, the 500 processing error exactly for
\* every other failure (a tool that could not be started, a failed audio
\* extraction).
C3_ErrorClassMatchesCause ==
    \A r \in Reqs :
        Finished(r, "youtube") /\ Failed(r) =>
            /\ (rq[r].resp = Returned(400, "download failed")
                    <=> rq[r].cause = "not found")
            /\ (rq[r].resp = Returned(500, "downloader error")
                    <=> rq[r].cause = "download")
            /\ (rq[r].resp = Returned(500, "processing error")
                    <=> rq[r].cause \notin {"not found", "download"})

(* ------------------------------- C4 ----------------------------------- *)

\* C4: after a failed /upload or /youtube the failure reaches the caller, no
\* file that starts with the request's identifier is left in the videos
\* directory (short of a deletion that itself failed), and a failing
\* deletion never takes the place of the original failure.
C4_FailedIngestionCleansUp ==
    \A r \in Reqs :
        (Finished(r, "upload") \/ Finished(r, "youtube")) /\ Failed(r) =>
            /\ rq[r].resp.status >= 400
            /\ (rq[r].kind = "upload" => rq[r].resp.raised = rq[r].exc)
            /\ (rq[r].rm_failed \/ \A f \in videos : ~IsPrefixOf(rq[r].id, f))

(* ------------------------------- C5 ----------------------------------- *)

\* C5: a /generate-clip whose video_id is the prefix of no file in the videos
\* directory returns {error: "Video file not found"} with status 200, raises
\* nothing, invokes no tool and creates no clip file (nor an identifier).
C5_UnknownVideoIsSoftError ==
    [][ LET n == Len(rq')
        IN  ( /\ n = Len(rq) + 1
              /\ rq'[n].kind = "generate_clip"
              /\ \A f \in videos : ~IsPrefixOf(rq'[n].arg.video_id, f) )
            => ( /\ rq'[n].resp = Returned(200, "Video file not found")
                 /\ rq'[n].pc = "done"
                 /\ rq'[n].calls = <<>>
                 /\ rq'[n].exc = NoExc
                 /\ clips' = clips /\ audio' = audio /\ issued' = issued ) ]_vars

\* A not-found answer was given while another video was stored.
C5_Witness ==
    \E r \in Reqs :
        /\ Finished(r, "generate_clip")
        /\ rq[r].resp.body = "Video file not found"
        /\ rq[r].arg.video_id = <<"p", "p">>
        /\ videos # {}
        /\ \A f \in videos : ~IsPrefixOf(<<"p", "p">>, f)

(* ------------------------------- C6 ----------------------------------- *)

\* Whether g is the right answer of a retrieval handler in the current
\* state, given the not-found text of the audio endpoint.
RightAnswer(g, audio_not_found) ==
    /\ g.status = 200
    /\ g.endpoint = "clips" =>
          IF (g.clip_id \o <<".", "m", "p", "4">>) \in clips
          THEN g.body = "file" /\ g.media = "video/mp4"
          ELSE g.body = "Clip not found"
    /\ g.endpoint = "audio" =>
          IF (g.clip_id \o <<".", "w", "a", "v">>) \in audio
          THEN g.body = "file" /\ g.media = "audio/wav"
          ELSE g.body = audio_not_found

\* C6 as claimed: both GET /clips/{clip_id}.mp4 and GET /audio/{clip_id}.wav
\* answer a missing file with {error: "Clip not found"} and status 200, and
\* stream an existing file as video/mp4 or audio/wav.
C6_BothAnswerClipNotFound ==
    [][get_resp' # get_resp => RightAnswer(get_resp', "Clip not found")]_vars

\* C6 as amended: the same, except that GET /audio/{clip_id}.wav answers a
\* missing file with {error: "Audio clip not found"}.
C6_AudioAnswersAudioClipNotFound ==
    [][get_resp' # get_resp => RightAnswer(get_resp', "Audio clip not found")]_vars

\* GET /audio streamed the audio clip a finished /generate-clip had made.
C6_Witness ==
    /\ get_resp.endpoint = "audio" /\ get_resp.body = "file"
    /\ \E r \in Reqs : Finished(r, "generate_clip") /\ rq[r].id = get_resp.clip_id


(* ------------------------------- C7 ----------------------------------- *)

\* C7: create_video_clip runs the stream copy first and the re-encode if and
\* only if the stream copy reported failure, that is, ran and exited
\* non-zero (a tool that could not be started reports nothing and is not
\* run again), both with the request's source, start, duration
\* end_time - start_time (also when it is not positive) and clip path; it
\* runs the tool at most twice; and when the re-encode fails too,
\* generate_clip raises that failure after removing the partial clip (short
\* of a removal that itself fails, which is swallowed).
C7_CopyThenReencodeOnFailure ==
    \A r \in Reqs :
        rq[r].kind = "generate_clip" =>
            LET c == rq[r].calls
                data == rq[r].arg
                clip == rq[r].id \o <<".", "m", "p", "4">>
                V == { i \in 1..Len(c) : c[i].mode \in {"copy", "reencode"} }
            IN  /\ Cardinality(V) <= 2
                /\ c # <<>> => c[1].mode = "copy"
                /\ \A i \in V :
                     /\ c[i].tool = "ffmpeg"
                     /\ c[i].input = rq[r].src
                     /\ c[i].ss = data.start_time
                     /\ c[i].t = data.end_time - data.start_time
                     /\ c[i].output = clip
                     /\ c[i].mode = "reencode" => i = 2 /\ c[1].started /\ ~c[1].ok
                /\ (c # <<>> /\ c[1].started /\ ~c[1].ok /\ rq[r].pc # "reencode")
                      => Len(c) >= 2 /\ c[2].mode = "reencode"
                /\ (Len(c) >= 2 /\ c[2].mode = "reencode" /\ ~c[2].ok)
                      => /\ rq[r].pc \in {"cleanup", "done"}
                         /\ rq[r].exc.type \in {"CalledProcessError", "OSError"}
                         /\ rq[r].pc = "done" =>
                               /\ rq[r].resp.status = 500
                               /\ rq[r].resp.raised = rq[r].exc
                               /\ (clip \notin clips \/ rq[r].rm_failed)

\* Stream copy and re-encode both failed on a clip of negative duration, the
\* partial clip was removed and the failure raised.
C7_Witness ==
    \E r \in Reqs :
        /\ Finished(r, "generate_clip")
        /\ Len(rq[r].calls) = 2
        /\ rq[r].calls[1].started /\ ~rq[r].calls[1].ok
        /\ rq[r].calls[2].started /\ ~rq[r].calls[2].ok
        /\ rq[r].calls[2].t < 0
        /\ rq[r].resp.status = 500
        /\ [op |-> "delete", dir |-> "clips",
            name |-> rq[r].id \o <<".", "m", "p", "4">>, by |-> r] \in fslog

(* ------------------------------- C8 ----------------------------------- *)

\* C8: /youtube runs the download tool at most twice, first with the primary
\* format and a second time without format if and only if the first run
\* failed, that is, ran and exited non-zero (a download tool that could not
\* be started is not run again); it runs the audio extraction at most
\* once, as its last tool, and only after a download succeeded and on a file
\* of the videos directory whose name starts with the identifier.
C8_DownloadRetriedOnceExtractionNever ==
    \A r \in Reqs :
        rq[r].kind = "youtube" =>
            LET c == rq[r].calls
            IN  /\ \A i \in 1..Len(c) :
                     /\ c[i].tool = "yt_dlp" => i <= 2
                     /\ (c[i].tool = "yt_dlp" /\ i = 1) => c[i].mode = "primary"
                     /\ (c[i].tool = "yt_dlp" /\ i = 2) =>
                            c[i].mode = "any" /\ c[1].started /\ ~c[1].ok
                     /\ c[i].tool = "ffmpeg" =>
                          /\ i = Len(c) /\ i > 1
                          /\ c[i - 1].tool = "yt_dlp" /\ c[i - 1].ok
                          /\ IsPrefixOf(rq[r].id, c[i].input)
                          /\ [op |-> "write", dir |-> "videos",
                              name |-> c[i].input, by |-> r] \in fslog
                /\ c # <<>> => c[1].tool = "yt_dlp"
                /\ (c # <<>> /\ c[1].started /\ ~c[1].ok /\ rq[r].pc # "retry")
                      => Len(c) >= 2 /\ c[2].tool = "yt_dlp"

\* The first download failed, the second succeeded, and the one audio
\* extraction that followed failed and ended the request.
C8_Witness ==
    \E r \in Reqs :
        /\ Finished(r, "youtube")
        /\ Len(rq[r].calls) = 3
        /\ rq[r].calls[1].started /\ ~rq[r].calls[1].ok /\ rq[r].calls[2].ok
        /\ rq[r].calls[3].tool = "ffmpeg" /\ ~rq[r].calls[3].ok
        /\ rq[r].resp.status = 500

(* ------------------------------- C9 ----------------------------------- *)

\* C9: under every interleaving, each file a request writes or deletes is
\* named by the identifier that request generated; no path is written by two
\* requests and no request deletes a file another request created.
C9_RequestsTouchOnlyTheirOwnFiles ==
    /\ \A e \in fslog :
         /\ e.by \in Reqs
         /\ rq[e.by].id # <<>>
         /\ IdentifierOf(e.name) = rq[e.by].id
    /\ \A e1 \in fslog, e2 \in fslog :
         (e1.dir = e2.dir /\ e1.name = e2.name) => e1.by = e2.by
    /\ \A r1 \in Reqs, r2 \in Reqs :
         (r1 # r2 /\ rq[r1].id # <<>>) => rq[r1].id # rq[r2].id

\* While the first request is still running with its video stored, the
\* second one, started after it, has failed and deleted its own download.
C9_Witness ==
    /\ Len(rq) = 2
    /\ rq[1].pc \notin {"start", "done"}
    /\ \E f \in videos : [op |-> "write", dir |-> "videos", name |-> f, by |-> 1] \in fslog
    /\ Finished(2, "youtube")
    /\ \E e \in fslog : e.op = "delete" /\ e.by = 2
    /\ rq[1].id[1] = rq[2].id[1]

(* ------------------------------- C10 ---------------------------------- *)

\* C10: /generate-clip resolves video_id by exact match: the video handed to
\* the tool is an asset whose identifier equals video_id, the audio used for
\* the audio clip belongs to that asset, and a video_id that is only a proper
\* prefix of a stored identifier (the empty string included) selects nothing.
C10_ExactMatchResolution ==
    \A r \in Reqs :
        rq[r].kind = "generate_clip" =>
            /\ rq[r].src # <<>> => IdentifierOf(rq[r].src) = rq[r].arg.video_id
            /\ \A i \in 1..Len(rq[r].calls) :
                 /\ rq[r].calls[i].mode \in {"copy", "reencode"} =>
                        IdentifierOf(rq[r].calls[i].input) = rq[r].arg.video_id
                 /\ rq[r].calls[i].mode = "audio clip" =>
                        IdentifierOf(rq[r].calls[i].input) = IdentifierOf(rq[r].src)


=============================================================================
